---------------------------- MODULE Spec2Model ----------------------------
(***************************************************************************)
(* A model of the note-taking persistence layer: package/conf.py (engine,  *)
(* the one process-wide session, create_db / init_db / drop_db and         *)
(* save_to_db), package/category.py (Category) and package/note.py (Note). *)
(*                                                                         *)
(* The database is the MySQL server the engine URL names.  Its state is    *)
(* the schema (does the database exist, which tables exist) and the rows   *)
(* of the two tables, with the constraints the Column declarations put on  *)
(* them.                                                                   *)
(*                                                                         *)
(* The engine URL names no database, so a new connection has no default    *)
(* database; USE gives one to the connection that executes it and to no    *)
(* other.  The engine's pool hands out its idle connections first in,      *)
(* first out, and opens a new one when none is idle.  Each statement of    *)
(* create_db, init_db and drop_db checks a connection out and returns it.  *)
(* The session (conf.py line 32) checks a connection out for its first     *)
(* statement and keeps it, with the transaction open on it, until a commit *)
(* succeeds; nothing in the package closes or rolls back the session.  A   *)
(* SELECT that found its table leaves a metadata lock on it in the open    *)
(* transaction, and DROP DATABASE on another connection waits for it.      *)
(*                                                                         *)
(* session.commit() flushes the pending list; when an INSERT of the flush  *)
(* fails the session rolls the database transaction back, expunges the     *)
(* pending objects, and leaves its transaction inactive until              *)
(* session.rollback() is called, which nothing in the package does: every  *)
(* later commit and every later query on the session then raises           *)
(* InvalidRequestError ("This Session's transaction has been rolled back   *)
(* due to a previous exception during flush").                             *)
(*                                                                         *)
(* search_by_name and notes build a Query and return it; its SELECT runs   *)
(* when the caller iterates it, in the state of that moment.  A Query is   *)
(* an immutable description, so the iteration steps take the description   *)
(* as their input.  find_by_name runs its SELECT itself (Query.one()).     *)
(*                                                                         *)
(* print writes to sys.stdout and raises when it cannot (the stream is     *)
(* closed, the text cannot be encoded); whether it can is an input of the  *)
(* operations that print.                                                  *)
(*                                                                         *)
(* With one caller session.commit() and init_db() are one step each.  With *)
(* several threads each is the sequence of its round trips to the server,  *)
(* and the other threads run between them (second half of the module).     *)
(* CREATE TABLE takes no lock that a transaction on another table holds.   *)
(*                                                                         *)
(* The server enforces the foreign key (InnoDB) and does not reuse an      *)
(* AUTO_INCREMENT value that a rejected or rolled-back INSERT took.  Every *)
(* save is of a newly constructed object.  A persistent object's           *)
(* attributes are expired by                                               *)
(* every commit; one that a SELECT has loaded since reads as the reload    *)
(* would give it, because the lock of that SELECT keeps its row in place.  *)
(*                                                                         *)
(* Encodings: None / SQL NULL is NoneInt (0) for the integer columns,      *)
(* NullName for Category.name and NullText for Note.text.  A name is a     *)
(* character repeated len times, which is enough to tell names apart and   *)
(* to measure them against String(10).  A query's result is the set of     *)
(* rows it yields (the primary key makes rows distinct).  A connection is  *)
(* the boolean "it has db_name as its default database".                   *)
(***************************************************************************)
EXTENDS Integers, Sequences, FiniteSets, TLC

VARIABLES
    strict,      \* the server's sql_mode: TRUE rejects over-long strings, FALSE truncates them
    mapped,      \* the classes Category and Note are defined (note and category are imported)
    dbExists,    \* the database db_name exists on the server
    tables,      \* the tables that exist in it
    catRows,     \* rows of categories: [id, name]
    noteRows,    \* rows of notes: [id, text, category_id]
    catAuto,     \* next AUTO_INCREMENT value of categories.id
    noteAuto,    \* next AUTO_INCREMENT value of notes.id
    idle,        \* the pool's idle connections, the next to be handed out first
    sessNew,     \* conf.session: the pending objects, in the order they were added
    sessTrans,   \* conf.session: state of its transaction, "active" or "inactive"
    sessConn,    \* conf.session: the connection its transaction holds, <<>> when none
    sessLocks,   \* the session's open transaction holds a metadata lock on a table
    pc,          \* per caller: position inside save_to_db ("idle" outside it)
    cur,         \* per caller: the record it passed to save_to_db
    last,        \* the last operation and what its caller observed
    hist,        \* which callers' commits have so far written ("wrote") or failed on
                 \* ("failed") a record that another caller added
    races,       \* how many times a commit was entered inside another caller's commit
    flush,       \* the session.commit() in progress: its caller (by, 0 when none), the
                 \* count of pending objects its flush collected, their positions still to
                 \* insert and inserted, the callers whose objects it has flushed, and
                 \* what the other caller did inside it
    tx,          \* rows inserted on the session's connection and not yet committed
    exc,         \* per caller: the exception its except clause caught
    initPc,      \* the thread inside init_db: the statement it has executed last
    initConn     \* the connection that thread has checked out, <<>> when none

vars == <<strict, mapped, dbExists, tables, catRows, noteRows, catAuto, noteAuto,
          idle, sessNew, sessTrans, sessConn, sessLocks, pc, cur, last, hist,
          races, flush, tx, exc, initPc, initConn>>

dbVars == <<dbExists, tables, catRows, noteRows, catAuto, noteAuto>>
rowVars == <<catRows, noteRows, catAuto, noteAuto>>
sessVars == <<sessNew, sessTrans, sessConn, sessLocks>>
initVars == <<initPc, initConn>>
callerVars == <<pc, cur, hist, races, flush, tx, exc, initVars>>

---------------------------------------------------------------------------
(* Bounds and input sets *)

MaxId == 2          \* AUTO_INCREMENT values handed out per table
MaxStale == 1       \* objects added to the session once its transaction is inactive
MaxRaces == 2       \* commits entered inside another caller's commit

NameMax == 10       \* Category.name is String(10)

NoneInt == 0
NullName == [ch |-> "NULL", len |-> 0]
NullText == "NULL"

\* two names that fit the column and one that is a character too long
Chars == {"a", "b"}
Names == {[ch |-> c, len |-> NameMax] : c \in Chars} \cup {[ch |-> "a", len |-> NameMax + 1]}
NameArgs == Names \cup {NullName}
QueryNames == {n \in Names : n.len <= NameMax}
IdArgs == 0 .. MaxId
\* the notes saved: a text with every category_id, and one with no text
NoteArgs == {<<"t", c>> : c \in IdArgs} \cup {<<NullText, 1>>}
Callers == {1, 2}

TableNames == {"categories", "notes"}

---------------------------------------------------------------------------
(* What a caller observes of an operation: the error the operation met,    *)
(* whether the call ended in an exception, and what was returned.  arg is  *)
(* the operation's argument (0 when it takes none).  An operation that     *)
(* waits for a lock has err "LockWait": its call has not ended, and the    *)
(* thread does nothing else.                                               *)

Result(op, arg, err, raised, out) ==
    [op |-> op, arg |-> arg, err |-> err, raised |-> raised, out |-> out]

Running == last.err # "LockWait"

---------------------------------------------------------------------------
(* The mapped classes *)

\* Category(name=...): a transient object, id not yet generated
Category(name, by) == [name |-> name, by |-> by, id |-> NoneInt, kind |-> "Category"]

\* Note(text=..., category_id=...): a transient object
Note(text, cid, by) ==
    [by |-> by, id |-> NoneInt, kind |-> "Note", text |-> text, category_id |-> cid]

\* a caller outside save_to_db holds no record
NoRecord(by) == [by |-> by, kind |-> "none"]

IsCategory(o) == o.kind = "Category"
IsNote(o) == o.kind = "Note"

\* name = Column(String(10), nullable=False, unique=True)
CategoryNotNullOk(o) == o.name # NullName
CategoryLengthOk(o) == o.name.len <= NameMax
StoredName(n) == IF n.len > NameMax THEN [n EXCEPT !.len = NameMax] ELSE n
\* unique=True left out of the column
CategoryUniqueOkUnchecked(rows, name) == TRUE
CategoryUniqueOk(rows, name) == \A r \in rows : r.name # name

\* text = Column(Text, nullable=False); category_id = Column(Integer, ForeignKey, nullable=False)
NoteNotNullOk(o) == o.text # NullText /\ o.category_id # NoneInt
\* ForeignKey('categories.id') left out of the column
NoteFkOkUnchecked(rows, o) == TRUE
NoteFkOk(rows, o) == \E c \in rows : c.id = o.category_id

---------------------------------------------------------------------------
(* Connections *)

\* The pool hands out its oldest idle connection, or opens a new one: the
\* engine URL names no database, so a new connection has no default database.
Checkout(p) ==
    IF p = <<>> THEN [conn |-> FALSE, rest |-> <<>>]
    ELSE [conn |-> Head(p), rest |-> Tail(p)]

\* The connection the session's next statement runs on: the one its
\* transaction holds, or one checked out of the pool.
Acquire ==
    IF sessConn # <<>> THEN [conn |-> sessConn[1], rest |-> idle]
    ELSE Checkout(idle)

\* What the server answers a statement on table, on a connection: error
\* 1046 without a default database, 1146 when the table is not there.
StatementError(conn, table) ==
    IF ~conn THEN "NoDatabase"
    ELSE IF ~(dbExists /\ table \in tables) THEN "NoSuchTable"
    ELSE "none"

---------------------------------------------------------------------------
(* The database: one INSERT on connection conn.  d is [cats, notes,        *)
(* catAuto, noteAuto]; the result is the database after the statement, the *)
(* error it raised, and the object with its generated id and its columns   *)
(* as stored.  An INSERT the storage engine rejects (duplicate name,       *)
(* missing parent row) has already taken its AUTO_INCREMENT value.         *)

Db == [catAuto |-> catAuto, noteAuto |-> noteAuto, notes |-> noteRows, cats |-> catRows]

\* no commit in progress, nothing uncommitted
NoFlush == [by |-> 0, count |-> 0, todo |-> <<>>, ins |-> <<>>, owners |-> {}, inside |-> "none"]
EmptyTx == [notes |-> {}, cats |-> {}]

\* the database as the session's connection sees it: with its own uncommitted rows
DbView ==
    [catAuto |-> catAuto, noteAuto |-> noteAuto, notes |-> noteRows \cup tx.notes,
     cats |-> catRows \cup tx.cats]

\* the next AUTO_INCREMENT value after an INSERT with the value id
AutoAfter(auto, id) == IF id >= auto THEN id + 1 ELSE auto

InsertCategory(d, o, conn) ==
    IF StatementError(conn, "categories") # "none"
    THEN [err |-> StatementError(conn, "categories"), d |-> d, obj |-> o]
    ELSE IF ~CategoryNotNullOk(o)
    THEN [err |-> "NotNull", d |-> d, obj |-> o]
    ELSE IF strict /\ ~CategoryLengthOk(o)
    THEN [err |-> "DataTooLong", d |-> d, obj |-> o]
    ELSE IF o.id # NoneInt
    THEN \* an object an interrupted flush has inserted before: its id is in the INSERT
         IF (\E r \in d.cats : r.id = o.id) \/ ~CategoryUniqueOk(d.cats, StoredName(o.name))
         THEN [err |-> "Duplicate", d |-> d, obj |-> o]
         ELSE [err |-> "none",
               d |-> [d EXCEPT !.cats = @ \cup {[name |-> StoredName(o.name), id |-> o.id]},
                               !.catAuto = AutoAfter(@, o.id)],
               obj |-> [o EXCEPT !.name = StoredName(o.name)]]
    ELSE IF ~CategoryUniqueOk(d.cats, StoredName(o.name))
    THEN [err |-> "Duplicate", d |-> [d EXCEPT !.catAuto = @ + 1], obj |-> o]
    ELSE [err |-> "none",
          d |-> [d EXCEPT !.cats = @ \cup {[name |-> StoredName(o.name), id |-> d.catAuto]},
                          !.catAuto = @ + 1],
          obj |-> [o EXCEPT !.id = d.catAuto, !.name = StoredName(o.name)]]

InsertNote(d, o, conn) ==
    IF StatementError(conn, "notes") # "none"
    THEN [err |-> StatementError(conn, "notes"), d |-> d, obj |-> o]
    ELSE IF ~NoteNotNullOk(o)
    THEN [err |-> "NotNull", d |-> d, obj |-> o]
    ELSE IF o.id # NoneInt
    THEN IF \E r \in d.notes : r.id = o.id
         THEN [err |-> "Duplicate", d |-> d, obj |-> o]
         ELSE IF ~NoteFkOk(d.cats, o)
         THEN [err |-> "ForeignKey", d |-> d, obj |-> o]
         ELSE [err |-> "none",
               d |-> [d EXCEPT !.notes = @ \cup {[id |-> o.id, text |-> o.text,
                                                   category_id |-> o.category_id]},
                               !.noteAuto = AutoAfter(@, o.id)],
               obj |-> o]
    ELSE IF ~NoteFkOk(d.cats, o)
    THEN [err |-> "ForeignKey", d |-> [d EXCEPT !.noteAuto = @ + 1], obj |-> o]
    ELSE [err |-> "none",
          d |-> [d EXCEPT !.notes = @ \cup {[id |-> d.noteAuto, text |-> o.text,
                                              category_id |-> o.category_id]},
                          !.noteAuto = @ + 1],
          obj |-> [o EXCEPT !.id = d.noteAuto]]

Insert(d, o, conn) ==
    IF IsCategory(o) THEN InsertCategory(d, o, conn) ELSE InsertNote(d, o, conn)

---------------------------------------------------------------------------
(* The session *)

\* a session per caller: add starts from the caller's own empty pending list
SessionAddScoped(new, o) == <<o>>

\* session.add(record)
SessionAdd(new, o) == Append(new, o)

\* The flush's INSERTs: the statements run in order until one fails.
\* done collects the objects inserted, bad is the object whose INSERT failed.
RECURSIVE FlushAll(_, _, _, _)
FlushAll(d, objs, done, conn) ==
    IF objs = <<>>
    THEN [err |-> "none", d |-> d, done |-> done, bad |-> <<>>]
    ELSE LET r == Insert(d, Head(objs), conn)
         IN IF r.err # "none"
            THEN [err |-> r.err, d |-> r.d, done |-> done, bad |-> <<Head(objs)>>]
            ELSE FlushAll(r.d, Tail(objs), Append(done, r.obj), conn)

\* The unit of work inserts parent tables first: categories, then notes,
\* each in the order the objects were added.
FlushOrder(new) == SelectSeq(new, IsCategory) \o SelectSeq(new, IsNote)

\* session.commit() with pending list new.  The result: the error raised
\* ("none" when it returns), the database and the session afterwards, the
\* objects written and the object whose INSERT failed, the connection the
\* session holds and the pool's idle connections.
SessionCommit(new) ==
    IF sessTrans = "inactive"
    THEN [err |-> "InactiveTransaction", conn |-> sessConn, rest |-> idle,
          d |-> Db, new |-> new, done |-> <<>>, bad |-> <<>>, trans |-> "inactive"]
    ELSE IF new = <<>>
    THEN \* nothing to flush: COMMIT on the connection held, if any, and release it
         [err |-> "none", conn |-> <<>>, rest |-> idle \o sessConn,
          d |-> Db, new |-> <<>>, done |-> <<>>, bad |-> <<>>, trans |-> "active"]
    ELSE LET a == Acquire
             f == FlushAll(Db, FlushOrder(new), <<>>, a.conn)
         IN IF f.err = "none"
            THEN \* COMMIT; the connection goes back to the pool
                 [err |-> "none", conn |-> <<>>, rest |-> Append(a.rest, a.conn),
                  d |-> f.d, new |-> <<>>, done |-> f.done, bad |-> <<>>,
                  trans |-> "active"]
            ELSE \* the transaction is rolled back: the rows are as before, the
                 \* AUTO_INCREMENT counters are not; the pending objects are
                 \* expunged; the inactive transaction keeps its connection
                 [err |-> f.err, conn |-> <<a.conn>>, rest |-> a.rest,
                  d |-> [Db EXCEPT !.catAuto = f.d.catAuto, !.noteAuto = f.d.noteAuto],
                  new |-> <<>>, done |-> <<>>, bad |-> f.bad, trans |-> "inactive"]

---------------------------------------------------------------------------
(* save_to_db *)

CommitErrors == {"NoDatabase", "NoSuchTable", "NotNull", "DataTooLong", "Duplicate",
                 "ForeignKey", "InactiveTransaction", "TransactionClosed"}

\* except Exception as e: every error the commit raises is an Exception
SaveToDbCatches(err) == err \in CommitErrors

\* a handler that calls session.rollback(): the transaction is active again
\* and its connection is back in the pool
ExceptHandlerRollback(r) ==
    [r EXCEPT !.new = <<>>, !.trans = "active", !.conn = <<>>, !.rest = r.rest \o r.conn]

\* the except clause does nothing to the session: it is left as the failed
\* commit left it
ExceptHandler(r) == r

\* print e: raises when sys.stdout cannot take the text, and nothing
\* catches that
PrintRaises(printOk) == ~printOk

\* the saved object as its caller holds it after save_to_db
Saved(o, r) ==
    IF \E i \in 1 .. Len(r.done) : r.done[i].by = o.by /\ r.done[i].id # NoneInt
    THEN LET i == CHOOSE i \in 1 .. Len(r.done) : r.done[i].by = o.by IN r.done[i]
    ELSE o

SetDb(d) ==
    /\ catRows' = d.cats
    /\ noteRows' = d.notes
    /\ catAuto' = d.catAuto
    /\ noteAuto' = d.noteAuto

SetSession(r) ==
    /\ sessNew' = r.new
    /\ sessTrans' = r.trans
    /\ sessConn' = r.conn
    /\ idle' = r.rest
    /\ sessLocks' = (sessLocks /\ r.err = "InactiveTransaction")

\* Caps of the model: the ids the flush may hand out stay within MaxId, and
\* the objects stranded in an inactive session within MaxStale.
CanAdd(o) ==
    /\ sessTrans = "inactive" => Len(sessNew) < MaxStale
    /\ IsCategory(o) => catAuto + Len(SelectSeq(sessNew, IsCategory)) <= MaxId
    /\ IsNote(o) => noteAuto + Len(SelectSeq(sessNew, IsNote)) <= MaxId

SaveToDb(op, o, printOk) ==
    /\ Running
    /\ mapped
    /\ CanAdd(o)
    /\ LET c == SessionCommit(SessionAdd(sessNew, o))
           r == IF c.err = "none" THEN c ELSE ExceptHandler(c)
       IN /\ SetDb(r.d)
          /\ SetSession(r)
          /\ last' = Result(op, o, r.err,
                            r.err # "none" /\ (~SaveToDbCatches(r.err) \/ PrintRaises(printOk)),
                            {Saved(o, r)})
    /\ UNCHANGED <<strict, mapped, dbExists, tables, callerVars>>

\* Category(name=name).save()
SaveCategory(name, printOk) == SaveToDb("Category.save", Category(name, 1), printOk)

\* Note(text=text, category_id=cid).save()
SaveNote(text, cid, printOk) == SaveToDb("Note.save", Note(text, cid, 1), printOk)

---------------------------------------------------------------------------
(* Queries on the session.  autoflush=False: a query never flushes. *)

\* One SELECT of the session on table: the error it raises, the connection
\* the session holds afterwards, the pool, and the session's lock.
SessionSelect(table) ==
    IF sessTrans = "inactive"
    THEN [err |-> "InactiveTransaction", conn |-> sessConn, rest |-> idle,
          locks |-> sessLocks]
    ELSE LET a == Acquire
             e == StatementError(a.conn, table)
         IN [err |-> e, conn |-> <<a.conn>>, rest |-> a.rest,
             locks |-> (sessLocks \/ e = "none")]

SetSelect(s) ==
    /\ sessConn' = s.conn
    /\ idle' = s.rest
    /\ sessLocks' = s.locks
    /\ UNCHANGED <<sessNew, sessTrans>>

\* session.query(Category).filter(Category.name == name): the Query, not run
SearchByNameQuery(name) == [table |-> "categories", col |-> "name", val |-> name]

\* session.query(Note).filter(Note.category_id == self.id): the Query, not run
NotesQuery(cid) == [table |-> "notes", col |-> "category_id", val |-> cid]

Queries == {SearchByNameQuery(n) : n \in QueryNames} \cup {NotesQuery(c) : c \in IdArgs}

RowsOf(table) == IF table = "categories" THEN catRows ELSE noteRows

\* The Query's SELECT, run now
Execute(q) ==
    LET s == SessionSelect(q.table)
    IN [err |-> s.err,
        rows |-> IF s.err = "none" THEN {r \in RowsOf(q.table) : r[q.col] = q.val} ELSE {},
        sel |-> s]

\* Query.one(): exactly one row, or NoResultFound / MultipleResultsFound
One(x) ==
    IF x.err # "none" THEN x
    ELSE IF x.rows = {} THEN [x EXCEPT !.err = "NoResultFound"]
    ELSE IF Cardinality(x.rows) > 1 THEN [x EXCEPT !.err = "MultipleResultsFound", !.rows = {}]
    ELSE x

FindByNameResult(name) == One(Execute(SearchByNameQuery(name)))

\* self.id in notes(): on a persistent object the attribute is expired and
\* the session reloads the object's row; on a transient one it is just read
NotesSelfId(cid, persistent) ==
    LET s == SessionSelect("categories")
    IN IF ~persistent THEN [err |-> "none", sel |-> s]
       ELSE IF s.err # "none" THEN [err |-> s.err, sel |-> s]
       ELSE IF ~(\E c \in catRows : c.id = cid) THEN [err |-> "ObjectDeleted", sel |-> s]
       ELSE [err |-> "none", sel |-> s]

\* Category.search_by_name(name): builds the Query and returns it
SearchByName(name) ==
    /\ Running
    /\ mapped
    /\ last' = Result("search_by_name", name, "none", FALSE, {SearchByNameQuery(name)})
    /\ UNCHANGED <<strict, mapped, dbVars, idle, sessVars, callerVars>>

\* Category.find_by_name(name)
FindByName(name) ==
    /\ Running
    /\ mapped
    /\ LET x == FindByNameResult(name)
       IN /\ SetSelect(x.sel)
          /\ last' = Result("find_by_name", name, x.err, x.err # "none", x.rows)
    /\ UNCHANGED <<strict, mapped, dbVars, callerVars>>

\* c.notes(), c a Category object with id cid: reads self.id, builds the
\* Query and returns it
Notes(cid, persistent) ==
    /\ Running
    /\ mapped
    /\ persistent => cid # NoneInt
    /\ LET x == NotesSelfId(cid, persistent)
       IN /\ IF persistent THEN SetSelect(x.sel) ELSE UNCHANGED <<idle, sessVars>>
          /\ last' = Result("notes", cid, x.err, x.err # "none",
                            IF x.err = "none" THEN {NotesQuery(cid)} ELSE {})
    /\ UNCHANGED <<strict, mapped, dbVars, callerVars>>

\* the caller iterates a Query that search_by_name or notes returned
Iterate(q) ==
    /\ Running
    /\ mapped
    /\ LET x == Execute(q)
       IN /\ SetSelect(x.sel)
          /\ last' = Result("iterate", q, x.err, x.err # "none", x.rows)
    /\ UNCHANGED <<strict, mapped, dbVars, callerVars>>

---------------------------------------------------------------------------
(* Importing the modules.  category imports note at its top and note       *)
(* imports category and reads category.Category in the body of class Note. *)

\* import note: category is run to its end inside it, then class Note
ImportNote ==
    /\ Running
    /\ mapped' = TRUE
    /\ last' = Result("import note", 0, "none", FALSE, {})
    /\ UNCHANGED <<strict, dbVars, idle, sessVars, callerVars>>

\* import category, before note was imported: note runs while category has
\* not yet defined Category, and class Note raises AttributeError
ImportCategory ==
    /\ Running
    /\ last' = IF mapped THEN Result("import category", 0, "none", FALSE, {})
               ELSE Result("import category", 0, "AttributeError", TRUE, {})
    /\ UNCHANGED <<strict, mapped, dbVars, idle, sessVars, callerVars>>

---------------------------------------------------------------------------
(* Schema lifecycle: statements on the engine, outside the session *)

\* create_db(): CREATE DATABASE IF NOT EXISTS on one checkout, USE on the
\* next.  The pool afterwards.
CreateDb(p) ==
    LET c == Checkout(p)
        u == Checkout(Append(c.rest, c.conn))
    IN Append(u.rest, TRUE)

\* the tables create_all creates, parents first
CreateOrder == <<"categories", "notes">>

\* Base.metadata.create_all(engine): on one checkout, looks for the table
\* of each class defined so far and creates the ones not there
CreateAll(p) ==
    LET c == Checkout(p)
    IN [err |-> IF mapped /\ ~c.conn THEN "NoDatabase" ELSE "none",
        rest |-> Append(c.rest, c.conn)]

\* create_db() on its own
CreateDbOnly ==
    /\ Running
    /\ dbExists' = TRUE
    /\ idle' = CreateDb(idle)
    /\ last' = Result("create_db", 0, "none", FALSE, {})
    /\ UNCHANGED <<strict, mapped, tables, rowVars, sessVars, callerVars>>

\* init_db()
InitDb(printOk) ==
    /\ Running
    /\ dbExists' = TRUE
    /\ LET a == CreateAll(CreateDb(idle))
       IN /\ idle' = a.rest
          /\ tables' = IF a.err = "none" /\ mapped THEN tables \cup TableNames ELSE tables
          /\ last' = IF a.err # "none" THEN Result("init_db", 0, a.err, TRUE, {})
                     ELSE IF PrintRaises(printOk)
                     THEN Result("init_db", 0, "PrintFailed", TRUE, {})
                     ELSE Result("init_db", 0, "none", FALSE, {})
    /\ UNCHANGED <<strict, mapped, rowVars, sessVars, callerVars>>

\* drop_db(): DROP DATABASE IF EXISTS waits while the session's open
\* transaction holds a lock on a table of the database; otherwise the
\* tables and their rows go with the database, and the connection that
\* dropped its default database has none
DropDb(printOk) ==
    /\ Running
    /\ IF sessConn # <<>> /\ sessLocks /\ dbExists
       THEN /\ idle' = Checkout(idle).rest
            /\ last' = Result("drop_db", 0, "LockWait", FALSE, {})
            /\ UNCHANGED dbVars
       ELSE /\ LET c == Checkout(idle)
               IN idle' = Append(c.rest, c.conn /\ ~dbExists)
            /\ dbExists' = FALSE
            /\ tables' = {}
            /\ catRows' = {}
            /\ noteRows' = {}
            /\ catAuto' = 1
            /\ noteAuto' = 1
            /\ last' = IF PrintRaises(printOk)
                       THEN Result("drop_db", 0, "PrintFailed", TRUE, {})
                       ELSE Result("drop_db", 0, "none", FALSE, {})
    /\ UNCHANGED <<strict, mapped, sessVars, callerVars>>

---------------------------------------------------------------------------
(* One caller at a time *)

InitState ==
    /\ dbExists = FALSE
    /\ tables = {}
    /\ catRows = {}
    /\ noteRows = {}
    /\ catAuto = 1
    /\ noteAuto = 1
    /\ idle = <<>>
    /\ sessNew = <<>>
    /\ sessTrans = "active"
    /\ sessConn = <<>>
    /\ sessLocks = FALSE
    /\ pc = [t \in Callers |-> "idle"]
    /\ cur = [t \in Callers |-> NoRecord(t)]
    /\ last = Result("import conf", 0, "none", FALSE, {})
    /\ hist = {}
    /\ races = 0
    /\ flush = NoFlush
    /\ tx = EmptyTx
    /\ exc = [t \in Callers |-> "none"]
    /\ initPc = "start"
    /\ initConn = <<>>

\* import conf
Init ==
    /\ strict \in BOOLEAN
    /\ mapped = FALSE
    /\ InitState

DoImportNote == ImportNote
DoImportCategory == ImportCategory
DoCreateDb == CreateDbOnly
DoInitDb == \E p \in BOOLEAN : InitDb(p)
DoDropDb == \E p \in BOOLEAN : DropDb(p)
DoSaveCategory == \E n \in NameArgs, p \in BOOLEAN : SaveCategory(n, p)
DoSaveNote == \E a \in NoteArgs, p \in BOOLEAN : SaveNote(a[1], a[2], p)
DoSearchByName == \E n \in QueryNames : SearchByName(n)
DoFindByName == \E n \in QueryNames : FindByName(n)
DoNotes == \E c \in IdArgs, p \in BOOLEAN : Notes(c, p)
DoIterate == \E q \in Queries : Iterate(q)

Next ==
    \/ DoImportNote
    \/ DoImportCategory
    \/ DoCreateDb
    \/ DoInitDb
    \/ DoDropDb
    \/ DoSaveCategory
    \/ DoSaveNote
    \/ DoSearchByName
    \/ DoFindByName
    \/ DoNotes
    \/ DoIterate

Spec == Init /\ [][Next]_vars

---------------------------------------------------------------------------
(* Two callers inside save_to_db at once.  The session is shared and       *)
(* save_to_db takes no lock.  A caller is at one of the points where its   *)
(* thread waits and the other runs: before session.commit() ("added"),     *)
(* between the round trips of the flush's INSERTs ("flush"), in the        *)
(* ROLLBACK after a failed INSERT ("rollback"), before the COMMIT          *)
(* ("commit"), and before print e ("handler").                             *)
(*                                                                         *)
(* A session.add inside another caller's flush lands after the flush       *)
(* collected its objects: the commit flushes again until the session is    *)
(* clean, and a failed flush expunges it with the rest.  A session.commit  *)
(* inside another caller's commit is a race on the Session.  While the     *)
(* other caller flushes, the session's current transaction is the flush's  *)
(* subtransaction and Session._flushing is set: the commit skips the flush *)
(* and closes the subtransaction without a statement; a second one finds   *)
(* the root transaction and sends COMMIT on the connection the flush is    *)
(* using.  The flush then raises at its next connection lookup (the start  *)
(* of the next table's INSERTs, or its end) without a ROLLBACK: what it    *)
(* inserted stays on the connection and its objects stay pending.  While   *)
(* the other caller is about to send COMMIT the transaction is prepared:   *)
(* the commit sends COMMIT itself, and the other caller's commit returns   *)
(* or raises on the transaction it finds committed.                        *)

Owners(new, n) == {new[i].by : i \in 1 .. n}

OpOf(o) == IF IsCategory(o) THEN "Category.save" ELSE "Note.save"

\* The order of a flush over the first n pending objects, as positions in
\* the pending list: categories first, then notes.
FlushIdx(new, n) ==
    LET idx == [i \in 1 .. n |-> i]
    IN SelectSeq(idx, LAMBDA i : IsCategory(new[i])) \o SelectSeq(idx, LAMBDA i : IsNote(new[i]))

\* Session.flush() begins: _flushing is set and the pending objects are collected
StartFlush(t, new, owners, inside) ==
    [by |-> t, count |-> Len(new), todo |-> FlushIdx(new, Len(new)), ins |-> <<>>,
     owners |-> owners, inside |-> inside]

\* save_to_db returns without having raised
Return(t) ==
    /\ cur' = [cur EXCEPT ![t] = NoRecord(t)]
    /\ last' = Result(OpOf(cur[t]), cur[t], "none", FALSE, {cur[t]})
    /\ UNCHANGED exc

\* session.commit() raises: control is in the except clause
ToHandler(t, err) ==
    /\ pc' = [pc EXCEPT ![t] = "handler"]
    /\ exc' = [exc EXCEPT ![t] = err]
    /\ UNCHANGED <<cur, last>>

Raced == races > 0

\* session.add(record), the first statement of save_to_db
AddStep(t, o) ==
    /\ pc[t] = "idle"
    /\ UNCHANGED initVars
    /\ CanAdd(o)
    /\ sessNew' = SessionAdd(sessNew, o)
    /\ pc' = [pc EXCEPT ![t] = "added"]
    /\ cur' = [cur EXCEPT ![t] = o]
    /\ flush' = IF flush.by # 0 /\ flush.inside = "none"
                THEN [flush EXCEPT !.inside = "add"] ELSE flush
    /\ UNCHANGED <<strict, mapped, dbVars, idle, sessTrans, sessConn, sessLocks, last, races,
                   hist, tx, exc>>

\* session.commit() entered while another caller is inside its own
Intrude(t) ==
    LET u == flush.by
    IN /\ races < MaxRaces
       /\ races' = races + 1
       /\ UNCHANGED hist
       /\ Return(t)
       /\ IF pc[u] = "commit"
          THEN \* prepared: COMMIT on the connection
               /\ catRows' = catRows \cup tx.cats
               /\ noteRows' = noteRows \cup tx.notes
               /\ tx' = EmptyTx
               /\ idle' = idle \o sessConn
               /\ sessConn' = <<>>
               /\ sessLocks' = FALSE
               /\ flush' = NoFlush
               /\ UNCHANGED <<catAuto, noteAuto>>
          ELSE IF flush.inside \in {"none", "add"}
          THEN \* the flush's subtransaction is committed and closed: no statement
               /\ flush' = [flush EXCEPT !.inside = "closed"]
               /\ UNCHANGED <<rowVars, tx, idle, sessConn, sessLocks>>
          ELSE IF flush.inside = "closed"
          THEN \* the root transaction: COMMIT on the connection the flush uses;
               \* it arrives after the ROLLBACK when one is on its way
               /\ catRows' = IF pc[u] = "flush" THEN catRows \cup tx.cats ELSE catRows
               /\ noteRows' = IF pc[u] = "flush" THEN noteRows \cup tx.notes ELSE noteRows
               /\ tx' = EmptyTx
               /\ idle' = idle \o sessConn
               /\ sessConn' = <<>>
               /\ sessLocks' = FALSE
               /\ flush' = [flush EXCEPT !.inside = "committed"]
               /\ UNCHANGED <<catAuto, noteAuto>>
          ELSE \* a new root transaction with no connection: nothing to commit
               UNCHANGED <<rowVars, tx, idle, sessConn, sessLocks, flush>>
       /\ IF pc[u] = "commit"
          THEN pc' = [pc EXCEPT ![t] = "idle", ![u] = "raced"]
          ELSE pc' = [pc EXCEPT ![t] = "idle"]
       /\ UNCHANGED <<strict, mapped, dbExists, tables, sessNew, sessTrans>>

\* session.commit() is entered
CommitBegin(t) ==
    /\ pc[t] = "added"
    /\ UNCHANGED initVars
    /\ IF flush.by # 0 THEN Intrude(t)
       ELSE IF sessTrans = "inactive"
       THEN /\ ToHandler(t, "InactiveTransaction")
            /\ UNCHANGED <<strict, mapped, dbVars, idle, sessVars, hist, races, flush, tx>>
       ELSE /\ pc' = [pc EXCEPT ![t] = IF sessNew = <<>> THEN "commit" ELSE "flush"]
            /\ flush' = StartFlush(t, sessNew, {}, "none")
            /\ UNCHANGED <<strict, mapped, dbVars, idle, sessVars, cur, last, hist, races, tx, exc>>

\* the flush is at the start of a table's INSERTs, where it looks up its connection
BatchStart ==
    \/ flush.ins = <<>>
    \/ sessNew[flush.ins[Len(flush.ins)]].kind # sessNew[Head(flush.todo)].kind

\* One step of the flush: the next INSERT, or its end.  At its end the
\* flushed objects leave the pending list; objects added meanwhile are
\* flushed next, and when none is left the transaction is prepared.
FlushStep(t) ==
    /\ pc[t] = "flush"
    /\ UNCHANGED initVars
    /\ flush.by = t
    /\ IF flush.inside \in {"closed", "committed"} /\ (flush.todo = <<>> \/ BatchStart)
       THEN \* the subtransaction was closed under the flush
            /\ ToHandler(t, "TransactionClosed")
            /\ flush' = NoFlush
            /\ UNCHANGED <<dbVars, idle, sessVars, hist, tx>>
       ELSE IF flush.todo = <<>>
       THEN LET rest == SubSeq(sessNew, flush.count + 1, Len(sessNew))
                owners == flush.owners \cup Owners(sessNew, flush.count)
            IN /\ sessNew' = rest
               /\ flush' = StartFlush(t, rest, owners, flush.inside)
               /\ pc' = [pc EXCEPT ![t] = IF rest = <<>> THEN "commit" ELSE "flush"]
               /\ UNCHANGED <<dbVars, idle, sessTrans, sessConn, sessLocks, cur, last,
                              hist, tx, exc>>
       ELSE LET i == Head(flush.todo)
                o == sessNew[i]
                a == Acquire
                r == Insert(DbView, o, a.conn)
            IN /\ catAuto' = r.d.catAuto
               /\ noteAuto' = r.d.noteAuto
               /\ sessConn' = <<a.conn>>
               /\ idle' = a.rest
               /\ UNCHANGED <<dbExists, tables, catRows, noteRows, sessTrans, sessLocks>>
               /\ IF r.err = "none"
                  THEN /\ tx' = [notes |-> r.d.notes \ noteRows, cats |-> r.d.cats \ catRows]
                       /\ sessNew' = [sessNew EXCEPT ![i] = r.obj]
                       /\ cur' = IF cur[o.by] = o THEN [cur EXCEPT ![o.by] = r.obj] ELSE cur
                       /\ flush' = [flush EXCEPT !.todo = Tail(@), !.ins = Append(@, i)]
                       /\ UNCHANGED <<pc, last, hist, exc>>
                  ELSE IF flush.inside \in {"closed", "committed"}
                  THEN \* the rollback of the closed subtransaction raises: no ROLLBACK
                       /\ ToHandler(t, "TransactionClosed")
                       /\ flush' = NoFlush
                       /\ UNCHANGED <<sessNew, hist, tx>>
                  ELSE /\ pc' = [pc EXCEPT ![t] = "rollback"]
                       /\ exc' = [exc EXCEPT ![t] = r.err]
                       /\ hist' = IF flush.inside = "none" /\ o.by # t /\ ~Raced
                                  THEN hist \cup {[by |-> t, what |-> "failed"]} ELSE hist
                       /\ UNCHANGED <<sessNew, cur, last, flush, tx>>
    /\ UNCHANGED <<strict, mapped, races>>

\* ROLLBACK after the failed INSERT: the pending objects are expunged and
\* the transaction that was rolled back is left inactive
RollbackStep(t) ==
    /\ pc[t] = "rollback"
    /\ UNCHANGED initVars
    /\ flush.by = t
    /\ tx' = EmptyTx
    /\ sessNew' = <<>>
    /\ sessTrans' = IF flush.inside = "committed" THEN "active" ELSE "inactive"
    /\ sessLocks' = FALSE
    /\ flush' = NoFlush
    /\ pc' = [pc EXCEPT ![t] = "handler"]
    /\ UNCHANGED <<strict, mapped, dbVars, idle, sessConn, cur, last, hist, races, exc>>

\* COMMIT: what the transaction inserted is written, the connection goes
\* back to the pool
CommitStep(t) ==
    /\ pc[t] = "commit"
    /\ UNCHANGED initVars
    /\ flush.by = t
    /\ catRows' = catRows \cup tx.cats
    /\ noteRows' = noteRows \cup tx.notes
    /\ tx' = EmptyTx
    /\ idle' = idle \o sessConn
    /\ sessConn' = <<>>
    /\ sessLocks' = FALSE
    /\ hist' = IF flush.inside = "none" /\ flush.owners \ {t} # {} /\ ~Raced
               THEN hist \cup {[by |-> t, what |-> "wrote"]} ELSE hist
    /\ flush' = NoFlush
    /\ pc' = [pc EXCEPT ![t] = "idle"]
    /\ Return(t)
    /\ UNCHANGED <<strict, mapped, dbExists, tables, catAuto, noteAuto, sessNew, sessTrans,
                   races>>

\* the commit of a caller whose transaction another caller committed:
\* it returns, or raises on the transaction it finds committed
RacedStep(t) ==
    /\ pc[t] = "raced"
    /\ UNCHANGED initVars
    /\ \/ pc' = [pc EXCEPT ![t] = "idle"] /\ Return(t)
       \/ ToHandler(t, "TransactionClosed")
    /\ UNCHANGED <<strict, mapped, dbVars, idle, sessVars, hist, races, flush, tx>>

\* the except clause: print e
HandlerStep(t, printOk) ==
    /\ pc[t] = "handler"
    /\ UNCHANGED initVars
    /\ LET r == ExceptHandler([conn |-> sessConn, rest |-> idle, new |-> sessNew,
                               trans |-> sessTrans])
       IN /\ sessConn' = r.conn
          /\ idle' = r.rest
          /\ sessNew' = r.new
          /\ sessTrans' = r.trans
    /\ last' = Result(OpOf(cur[t]), cur[t], exc[t],
                      ~SaveToDbCatches(exc[t]) \/ PrintRaises(printOk), {cur[t]})
    /\ pc' = [pc EXCEPT ![t] = "idle"]
    /\ cur' = [cur EXCEPT ![t] = NoRecord(t)]
    /\ exc' = [exc EXCEPT ![t] = "none"]
    /\ UNCHANGED <<strict, mapped, dbVars, sessLocks, hist, races, flush, tx>>

\* The records the two callers save: names that fit the column, notes with
\* a text and a category_id.
ConcNames == {n \in Names : n.len <= NameMax}
ConcNotes == {a \in NoteArgs : a[1] # NullText /\ a[2] # NoneInt}

DoAddCategory == \E t \in Callers, n \in ConcNames : AddStep(t, Category(n, t))
DoAddNote == \E t \in Callers, a \in ConcNotes : AddStep(t, Note(a[1], a[2], t))
DoCommitBegin == \E t \in Callers : CommitBegin(t)
DoFlush == \E t \in Callers : FlushStep(t)
DoRollback == \E t \in Callers : RollbackStep(t)
DoCommit == \E t \in Callers : CommitStep(t)
DoRaced == \E t \in Callers : RacedStep(t)
DoHandler == \E t \in Callers, p \in BOOLEAN : HandlerStep(t, p)

\* init_db() beside the two callers, on a thread of its own: one step per
\* statement it waits for, and one for giving the connection back to the
\* pool once the statement has returned.  engine.execute checks a connection
\* out for its statement; create_all keeps one checkout for all of its own.

\* conf.py line 36: CREATE DATABASE IF NOT EXISTS
InitDbCreate ==
    /\ initPc = "start"
    /\ LET c == Checkout(idle)
       IN /\ idle' = c.rest
          /\ initConn' = <<c.conn>>
    /\ dbExists' = TRUE
    /\ initPc' = "created"
    /\ UNCHANGED <<strict, mapped, tables, rowVars, sessVars, pc, cur, last, hist, races,
                   flush, tx, exc>>

\* the statement has returned: its connection goes back to the pool
InitDbRelease ==
    /\ initConn # <<>>
    /\ initPc \in {"created", "used", CreateOrder[2]}
    /\ idle' = idle \o initConn
    /\ initConn' = <<>>
    /\ UNCHANGED <<strict, mapped, dbVars, sessVars, pc, cur, last, hist, races, flush, tx,
                   exc, initPc>>

\* conf.py line 37: USE, on the next checkout
InitDbUse ==
    /\ initPc = "created"
    /\ initConn = <<>>
    /\ LET u == Checkout(idle)
       IN /\ idle' = u.rest
          /\ initConn' = <<TRUE>>
    /\ initPc' = "used"
    /\ UNCHANGED <<strict, mapped, dbVars, sessVars, pc, cur, last, hist, races, flush, tx,
                   exc>>

\* conf.py line 45: create_all checks a connection out and creates the
\* first table, or raises when the connection has no default database
InitDbCreateAll ==
    /\ initPc = "used"
    /\ initConn = <<>>
    /\ LET a == CreateAll(idle)
           c == Checkout(idle)
       IN IF a.err # "none"
          THEN /\ idle' = a.rest
               /\ initConn' = <<>>
               /\ initPc' = "done"
               /\ last' = Result("init_db", 0, a.err, TRUE, {})
               /\ UNCHANGED tables
          ELSE /\ idle' = c.rest
               /\ initConn' = <<c.conn>>
               /\ initPc' = CreateOrder[1]
               /\ tables' = IF mapped THEN tables \cup {CreateOrder[1]} ELSE tables
               /\ UNCHANGED last
    /\ UNCHANGED <<strict, mapped, dbExists, rowVars, sessVars, pc, cur, hist, races, flush,
                   tx, exc>>

\* conf.py line 45: create_all creates the second table
InitDbCreateNext ==
    /\ initPc = CreateOrder[1]
    /\ tables' = IF mapped THEN tables \cup {CreateOrder[2]} ELSE tables
    /\ initPc' = CreateOrder[2]
    /\ UNCHANGED <<strict, mapped, dbExists, rowVars, idle, sessVars, pc, cur, last, hist,
                   races, flush, tx, exc, initConn>>

\* conf.py line 48: the print
InitDbPrint(printOk) ==
    /\ initPc = CreateOrder[2]
    /\ initConn = <<>>
    /\ initPc' = "done"
    /\ last' = IF PrintRaises(printOk)
               THEN Result("init_db", 0, "PrintFailed", TRUE, {})
               ELSE Result("init_db", 0, "none", FALSE, {})
    /\ UNCHANGED <<strict, mapped, dbVars, idle, sessVars, pc, cur, hist, races, flush, tx,
                   exc, initConn>>

DoInitDbPrint == \E p \in BOOLEAN : InitDbPrint(p)

NextConc ==
    \/ InitDbCreate
    \/ InitDbRelease
    \/ InitDbUse
    \/ InitDbCreateAll
    \/ InitDbCreateNext
    \/ DoInitDbPrint
    \/ DoAddCategory
    \/ DoAddNote
    \/ DoCommitBegin
    \/ DoFlush
    \/ DoRollback
    \/ DoCommit
    \/ DoRaced
    \/ DoHandler

\* import note, on a strict server
InitConc ==
    /\ strict = TRUE
    /\ mapped = TRUE
    /\ InitState

SpecConc == InitConc /\ [][NextConc]_vars

---------------------------------------------------------------------------
(* Properties *)

SchemaReady == dbExists /\ TableNames \subseteq tables
SaveOps == {"Category.save", "Note.save"}
QueryOps == {"find_by_name", "notes", "iterate"}
TheSaved == CHOOSE o \in last.out : TRUE

\* C1, as the specification states it: on an initialized schema, saving a
\* Category whose name has at most 10 characters and then calling
\* find_by_name(name) returns a Category with that name and a generated,
\* non-null id.
C1_SaveThenFind ==
    (/\ last.op = "Category.save"
     /\ last.arg.name # NullName
     /\ last.arg.name.len <= NameMax
     /\ SchemaReady)
    => LET x == FindByNameResult(last.arg.name)
       IN /\ x.err = "none"
          /\ \E r \in x.rows : r.name = last.arg.name /\ r.id # NoneInt

\* C2: category names are unique in every reachable state: for every name,
\* the rows that search_by_name(name) yields are at most one, also after a
\* second save of a name that is already there.
C2_UniqueNames ==
    \A n \in Names :
        /\ Cardinality({r \in catRows : r.name = n}) <= 1
        /\ Cardinality(Execute(SearchByNameQuery(n)).rows) <= 1

\* C2's case: a second Category with a name already in the table was saved
\* and rejected, and the first row is still there.
C2_Witness ==
    /\ last.op = "Category.save"
    /\ last.err = "Duplicate"
    /\ \E r \in catRows : r.name = StoredName(last.arg.name)

\* C3, as the specification states it: after saving a Note with a non-null
\* text whose category_id is the id of a persisted Category C, C.notes()
\* contains that Note exactly once, and only notes of category C.
C3_NoteListedOnce ==
    (/\ last.op = "Note.save"
     /\ last.arg.text # NullText
     /\ \E c \in catRows : c.id = last.arg.category_id)
    => LET x == Execute(NotesQuery(last.arg.category_id))
       IN /\ NotesSelfId(last.arg.category_id, TRUE).err = "none"
          /\ x.err = "none"
          /\ TheSaved.id # NoneInt
          /\ Cardinality({n \in x.rows : n.id = TheSaved.id /\ n.text = last.arg.text}) = 1
          /\ \A n \in x.rows : n.category_id = last.arg.category_id

\* C4: referential integrity in every reachable state: every Note row's
\* category_id is the id of a Category row; saving a Note whose category_id
\* names no Category row leaves no row for it.
C4_ReferentialIntegrity ==
    /\ \A n \in noteRows : \E c \in catRows : c.id = n.category_id
    /\ (last.op = "Note.save" /\ ~(\E c \in catRows : c.id = last.arg.category_id))
       => /\ TheSaved.id = NoneInt
          /\ ~(\E n \in noteRows : n.category_id = last.arg.category_id)

\* C4's case: a Note with a text and a category_id that names no Category
\* was saved and the database rejected it.
C4_Witness ==
    /\ last.op = "Note.save"
    /\ last.err = "ForeignKey"
    /\ last.arg.category_id # NoneInt
    /\ catRows # {}

\* C5, as the specification states it: save_to_db never lets a failure
\* reach its caller, whatever made the commit fail, and it is the only
\* operation that does so: a query that fails raises.
C5_SaveNeverRaises ==
    /\ last.op \in SaveOps => ~last.raised
    /\ (last.op \in QueryOps /\ last.err # "none") => last.raised

\* C6, as the specification states it: on an initialized schema
\* find_by_name(name) returns the row when exactly one row has the name and
\* raises NoResultFound or MultipleResultsFound otherwise; search_by_name
\* does not fail and the query it returns yields the matching rows; neither
\* changes the rows.
C6_Lookup ==
    [][(/\ SchemaReady
        /\ \/ last'.op \in {"find_by_name", "search_by_name"}
           \/ last'.op = "iterate" /\ last'.arg.table = "categories")
       => LET name == IF last'.op = "iterate" THEN last'.arg.val ELSE last'.arg
              m == {r \in catRows : r.name = name}
          IN /\ catRows' = catRows
             /\ noteRows' = noteRows
             /\ last'.op = "search_by_name" => ~last'.raised
             /\ last'.op = "iterate" => (~last'.raised /\ last'.out = m)
             /\ (last'.op = "find_by_name" /\ Cardinality(m) = 1)
                => (~last'.raised /\ last'.out = m)
             /\ (last'.op = "find_by_name" /\ Cardinality(m) # 1)
                => (/\ last'.raised
                    /\ last'.err \in {"NoResultFound", "MultipleResultsFound"})]_vars

\* C7, as the specification states it: init_db is idempotent: called when
\* the database and both tables exist it does not raise and changes neither
\* the schema, the rows nor the AUTO_INCREMENT counters.
C7_InitIdempotent ==
    [][(last'.op = "init_db" /\ SchemaReady)
       => (/\ ~last'.raised
           /\ UNCHANGED dbVars)]_vars

\* C8, as the specification states it: drop_db followed by init_db, from
\* any state in which the classes are defined, gives a schema in which the
\* database and both tables exist, a SELECT of the session on either table
\* finds the table, and both tables hold zero rows.
C8_DropThenInit ==
    [][/\ (mapped /\ last'.op = "drop_db") => last'.err # "LockWait"
       /\ (mapped /\ last.op = "drop_db" /\ last'.op = "init_db")
          => (/\ dbExists'
              /\ tables' = TableNames
              /\ catRows' = {}
              /\ noteRows' = {}
              /\ SessionSelect("categories").err' \notin {"NoSuchTable", "NoDatabase"}
              /\ SessionSelect("notes").err' \notin {"NoSuchTable", "NoDatabase"})]_vars

\* C9: save_to_db is not atomic.  When a caller commits while a record that
\* another caller added is pending, and the two commits do not overlap (add,
\* add, commit, commit), the commit either writes every pending record, the
\* other caller's included, or, if any of them violates a constraint, fails
\* as a whole: nothing is written, the committing caller's own record
\* included, and the session is left inactive with nothing pending.
WrittenIn(o, cats, notes) ==
    IF IsCategory(o)
    THEN \E r \in cats : r.name = StoredName(o.name)
    ELSE \E n \in notes : n.text = o.text /\ n.category_id = o.category_id

C9_SharedCommit ==
    [][\A t \in Callers : \A u \in Callers \ {t} :
         (/\ flush.by = t /\ flush.inside = "none" /\ ~Raced
          /\ pc[u] = "added"
          /\ pc[t] \in {"commit", "rollback"} /\ pc'[t] # pc[t])
         => \/ /\ pc[t] = "commit"
               /\ sessTrans' = "active"
               /\ last'.err = "none"
               /\ WrittenIn(cur[t], catRows', noteRows')
               /\ WrittenIn(cur[u], catRows', noteRows')
               /\ sessNew' = <<>>
               /\ tx' = EmptyTx
            \/ /\ pc[t] = "rollback"
               /\ sessTrans' = "inactive"
               /\ exc'[t] \in CommitErrors
               /\ catRows' = catRows
               /\ noteRows' = noteRows
               /\ sessNew' = <<>>
               /\ tx' = EmptyTx]_vars

\* C9's case: with no commit entered inside another, one caller's commit has
\* written a record the other caller added, and a commit has failed on a
\* record the other caller added.
C9_Witness ==
    /\ ~Raced
    /\ \E t \in Callers : [by |-> t, what |-> "wrote"] \in hist
    /\ \E t \in Callers : [by |-> t, what |-> "failed"] \in hist

\* C10, as the specification states it: after a save_to_db whose commit
\* fails, the failed record is still in the session's pending list.
C10_FailedRecordStaysPending ==
    (last.op \in SaveOps /\ last.err # "none")
    => \E i \in 1 .. Len(sessNew) : sessNew[i] = last.arg

\* C10, amended: save_to_db never rolls back.  After a save_to_db whose
\* commit fails the object has no id, and the session's transaction is
\* inactive and stays inactive.  The record whose flush failed has been
\* expunged by the failed flush; a record saved while the transaction is
\* inactive stays in the pending list.
C10_NoRollback ==
    /\ [](  (last.op \in SaveOps /\ last.err # "none")
            => /\ TheSaved.id = NoneInt
               /\ sessTrans = "inactive"
               /\ last.err = "InactiveTransaction"
                  => \E i \in 1 .. Len(sessNew) : sessNew[i] = last.arg
               /\ last.err # "InactiveTransaction" => sessNew = <<>>)
    /\ [][sessTrans = "inactive" => sessTrans' = "inactive"]_vars

\* C10's case: a save failed on an inactive transaction and its record is
\* left in the pending list.
C10_Witness ==
    /\ last.op \in SaveOps
    /\ last.err = "InactiveTransaction"
    /\ sessTrans = "inactive"
    /\ sessNew = <<last.arg>>

=============================================================================
